---------------------------- MODULE Spec2Model ----------------------------
(***************************************************************************)
(* State-machine model of the interactive note browser of attio-cli        *)
(* (src/src/tui.rs, src/src/cache.rs, src/src/models/note.rs).             *)
(*                                                                         *)
(* The variables are the locals of run_app and the terminal flags of       *)
(* run_list_tui.  A state is a point where the program is suspended: in    *)
(* event::poll ("poll") or awaiting the response of a list_notes request   *)
(* ("init_wait", "adv_wait", "bulk_wait").  An action is everything the    *)
(* code does between two such points, the draw_screen calls included.      *)
(*                                                                         *)
(* Strings the program inspects are kept: note_id and workspace_id as      *)
(* strings, title and content_plaintext as sequences of characters.  The   *)
(* four strings it never reads (parent_object, parent_record_id,           *)
(* content_markdown, created_at) are kept as their capacity only, which    *)
(* is all estimate_note_size uses of them.  A deserialized String is       *)
(* allocated exactly, so the capacity of an inspected string is its length.*)
(***************************************************************************)
EXTENDS Integers, Sequences, FiniteSets, TLC

VARIABLES
    scenario,          \* the environment of the session: remote notes, budget, terminal heights
    pc,                \* where the session is suspended
    raw_mode,          \* terminal raw mode enabled
    alt_screen,        \* terminal in the alternate screen
    result,            \* what run_list_tui returned ("running" until it returns)
    offset,            \* run_app locals, by name
    all_notes,
    cache_size_bytes,
    error_msg,
    total_fetched,
    input_mode,
    search_query,
    search_offset,
    is_fetching_all,
    limit,
    fetch_offset,      \* local of the Ctrl+A loop
    req,               \* the list_notes request in flight, or NoReq
    frame              \* what the last draw_screen call rendered

vars == <<scenario, pc, raw_mode, alt_screen, result, offset, all_notes,
          cache_size_bytes, error_msg, total_fetched, input_mode, search_query,
          search_offset, is_fetching_all, limit, fetch_offset, req, frame>>

(***************************************************************************)
(* Bounds and program constants                                            *)
(***************************************************************************)
MaxQueryLen == 2

NoteStructSize == 192

ChromeRows == 7

MinLimit == 1

MaxLimit == 50

FetchLimit == 50

BytesPerMb == 1048576

KeyChars == {"q", "/", "a", "N"}

NoMsg == "None"

ErrText == "API Error"

MsgCacheFull == "Cache limit reached. Not caching new notes."

MsgBulkLimit == "Cache limit reached. Stopped fetching."

MsgBulkError == "Error fetching all: API Error"

NoReq == [limit |-> 0, offset |-> 0, kind |-> "none"]

Min(a, b) == IF a < b THEN a ELSE b

Max(a, b) == IF a > b THEN a ELSE b

IsPrefix(s, t) == Len(s) <= Len(t) /\ SubSeq(t, 1, Len(s)) = s

(***************************************************************************)
(* Notes and the size estimate                                             *)
(***************************************************************************)
MkNote(ws, id, title, text, md_cap) ==
    [workspace_id |-> ws, note_id |-> id,
     parent_object_cap |-> 6, parent_record_id_cap |-> 36,
     title |-> title, content_plaintext |-> text,
     content_markdown_cap |-> md_cap, created_at_cap |-> 20]

estimate_note_size(note) ==
    NoteStructSize
        + Len(note.workspace_id)
        + Len(note.note_id)
        + note.parent_object_cap
        + note.parent_record_id_cap
        + Len(note.title)
        + Len(note.content_plaintext)
        + note.content_markdown_cap
        + note.created_at_cap

\* mutant of estimate_size_bytes: created_at is left out of the sum
estimate_size_bytes_NoCreatedAt(note) ==
    NoteStructSize
        + Len(note.workspace_id)
        + Len(note.note_id)
        + note.parent_object_cap
        + note.parent_record_id_cap
        + Len(note.title)
        + Len(note.content_plaintext)
        + note.content_markdown_cap


estimate_size_bytes(note) ==
    NoteStructSize
        + Len(note.workspace_id)
        + Len(note.note_id)
        + note.parent_object_cap
        + note.parent_record_id_cap
        + Len(note.title)
        + Len(note.content_plaintext)
        + note.content_markdown_cap
        + note.created_at_cap

\* the sum of the estimates of notes[lo..hi], by halves
RECURSIVE SumSizesIn(_, _, _)
SumSizesIn(notes, lo, hi) ==
    IF lo > hi THEN 0
    ELSE IF lo = hi THEN estimate_note_size(notes[lo])
    ELSE LET mid == (lo + hi) \div 2
         IN  SumSizesIn(notes, lo, mid) + SumSizesIn(notes, mid + 1, hi)

SumSizes(notes) == SumSizesIn(notes, 1, Len(notes))

(***************************************************************************)
(* The environments.  A remote is a fixed list of notes (stable across     *)
(* calls); a request can also fail with a transport error.                 *)
(***************************************************************************)
PadId(i) ==
    IF i < 10 THEN "n00" \o ToString(i)
    ELSE IF i < 100 THEN "n0" \o ToString(i)
    ELSE "n" \o ToString(i)

\* the bytes of a note that are not content_markdown, for a three-character
\* workspace id, a four-character note id, and the given title and text
FixedBytes(title, text) == NoteStructSize + 3 + 4 + 6 + 36 + Len(title) + Len(text) + 20

SizedNote(ws, id, title, text, size) ==
    MkNote(ws, id, title, text, size - FixedBytes(title, text))

RemoteSmall ==
    << SizedNote("ws1", "n001", <<"N", "a">>, <<"q">>, 300),
       SizedNote("ws1", "n002", <<"b">>, <<"A", "n">>, 400),
       SizedNote("ws1", "n003", <<"a", "/">>, <<>>, 300),
       SizedNote("ws1", "n004", <<"Q">>, <<"n", "a">>, 500) >>

\* ids repeat (within a page, across pages, and under another workspace) and
\* the 12 MB budget of the session is hit by n00B
RemoteOverlap ==
    << SizedNote("ws1", "n00A", <<"a">>, <<"N">>, 10 * BytesPerMb),
       SizedNote("ws2", "n00A", <<"a">>, <<"N">>, 300),
       SizedNote("ws1", "n00C", <<"N">>, <<"q">>, 1 * BytesPerMb),
       SizedNote("ws1", "n00D", <<"n", "a">>, <<>>, 300),
       SizedNote("ws1", "n00C", <<"N">>, <<"q">>, 1 * BytesPerMb),
       SizedNote("ws1", "n00B", <<"b">>, <<"a">>, 5 * BytesPerMb),
       SizedNote("ws1", "n00E", <<"a">>, <<>>, 300) >>

\* A (10 MB), B (5 MB), C (1 MB) against a 12 MB budget
RemoteOrder ==
    << SizedNote("ws1", "n00A", <<"a">>, <<"N">>, 10 * BytesPerMb),
       SizedNote("ws1", "n00B", <<"b">>, <<"a">>, 5 * BytesPerMb),
       SizedNote("ws1", "n00C", <<"N">>, <<"q">>, 1 * BytesPerMb) >>

\* distinct ids; the page at offset 2 of a two-row window holds a note that
\* fits followed by one that does not
RemotePartial ==
    << SizedNote("ws1", "n00A", <<"a">>, <<"N">>, 10 * BytesPerMb),
       SizedNote("ws1", "n00C", <<"N">>, <<"q">>, 1 * BytesPerMb),
       SizedNote("ws1", "n00F", <<"a">>, <<>>, 300),
       SizedNote("ws1", "n00B", <<"b">>, <<"a">>, 5 * BytesPerMb),
       SizedNote("ws1", "n00G", <<"/">>, <<>>, 300) >>

RemoteBulk50 == [i \in 1..50 |-> SizedNote("ws1", PadId(i), <<"N">>, <<"a">>, 300)]

RemoteBulk130 == [i \in 1..130 |-> SizedNote("ws1", PadId(i), <<"N">>, <<"a">>, 300)]

RemoteBudget200 == [i \in 1..200 |-> SizedNote("ws1", PadId(i), <<"N">>, <<"a">>, 6000)]

Scenarios == {"small", "overlap", "order", "partial"}

BulkScenarios == {"bulk50", "bulk130", "budget200"}

Remote(sc) ==
    CASE sc = "small" -> RemoteSmall
      [] sc = "overlap" -> RemoteOverlap
      [] sc = "order" -> RemoteOrder
      [] sc = "partial" -> RemotePartial
      [] sc = "bulk50" -> RemoteBulk50
      [] sc = "bulk130" -> RemoteBulk130
      [] sc = "budget200" -> RemoteBudget200

cache_limit_mb(sc) ==
    CASE sc \in {"overlap", "order", "partial"} -> 12
      [] sc = "budget200" -> 1
      [] OTHER -> 50

\* the terminal heights the session sees, at start and on resize
Heights(sc) ==
    IF sc \in Scenarios THEN {0, 7, 8, 9, 57, 65535}
    ELSE IF sc = "budget200" THEN {57, 65535}
    ELSE {32, 57, 58}

cache_limit_bytes == cache_limit_mb(scenario) * 1024 * 1024

list_notes(lim, off) ==
    LET data == Remote(scenario)
    IN  SubSeq(data, off + 1, Min(off + lim, Len(data)))

(***************************************************************************)
(* calculate_limit, add_to_cache                                           *)
(***************************************************************************)
saturating_sub(a, b) == IF a > b THEN a - b ELSE 0

clamp(v, lo, hi) == IF v < lo THEN lo ELSE IF v > hi THEN hi ELSE v

\* mutant of calculate_limit: the height is capped but has no floor
calculate_limit_NoFloor(rows) == Min(saturating_sub(rows, ChromeRows), MaxLimit)


calculate_limit(rows) == clamp(saturating_sub(rows, ChromeRows), MinLimit, MaxLimit)

\* mutant of InCache: the duplicate check compares the whole (workspace, note) key
InCacheFullKey(cache, note) ==
    \E k \in 1..Len(cache) :
        /\ cache[k].note_id = note.note_id
        /\ cache[k].workspace_id = note.workspace_id

InCache(cache, note) == \E k \in 1..Len(cache) : cache[k].note_id = note.note_id

\* mutant of Fits: the check looks at the size before the note is added
FitsBeforeAdd(cache_size, note_size, budget) == cache_size <= budget

Fits(cache_size, note_size, budget) == cache_size + note_size <= budget

\* mutant of add_loop: the size of a duplicate is added to the running total
RECURSIVE add_loop_CountsDuplicates(_, _, _, _, _, _)
add_loop_CountsDuplicates(cache, cache_size, new_notes, i, budget, added) ==
    IF i > Len(new_notes)
    THEN [cache |-> cache, cache_size |-> cache_size, added |-> added,
          limit_reached |-> FALSE]
    ELSE LET note == new_notes[i]
             note_size == estimate_note_size(note)
         IN  IF cache_size + note_size <= budget
             THEN add_loop_CountsDuplicates(
                      IF \E k \in 1..Len(cache) : cache[k].note_id = note.note_id
                      THEN cache ELSE Append(cache, note),
                      cache_size + note_size, new_notes, i + 1, budget, added + 1)
             ELSE [cache |-> cache, cache_size |-> cache_size,
                   added |-> added, limit_reached |-> TRUE]

\* mutant of add_loop: the budget is checked before the duplicate check
RECURSIVE add_loop_FitBeforeDup(_, _, _, _, _, _)
add_loop_FitBeforeDup(cache, cache_size, new_notes, i, budget, added) ==
    IF i > Len(new_notes)
    THEN [cache |-> cache, cache_size |-> cache_size, added |-> added,
          limit_reached |-> FALSE]
    ELSE LET note == new_notes[i]
             note_size == estimate_note_size(note)
         IN  IF ~(cache_size + note_size <= budget)
             THEN [cache |-> cache, cache_size |-> cache_size,
                   added |-> added, limit_reached |-> TRUE]
             ELSE IF \E k \in 1..Len(cache) : cache[k].note_id = note.note_id
                  THEN add_loop_FitBeforeDup(cache, cache_size, new_notes, i + 1,
                                             budget, added)
                  ELSE add_loop_FitBeforeDup(Append(cache, note),
                                             cache_size + note_size, new_notes,
                                             i + 1, budget, added + 1)

\* mutant of add_loop: a note that does not fit is skipped (`continue`) and the
\* loop goes on with the next candidate
RECURSIVE add_loop_SkipsOversized(_, _, _, _, _, _)
add_loop_SkipsOversized(cache, cache_size, new_notes, i, budget, added) ==
    IF i > Len(new_notes)
    THEN [cache |-> cache, cache_size |-> cache_size, added |-> added,
          limit_reached |-> FALSE]
    ELSE LET note == new_notes[i]
             note_size == estimate_note_size(note)
         IN  IF \E k \in 1..Len(cache) : cache[k].note_id = note.note_id
             THEN add_loop_SkipsOversized(cache, cache_size, new_notes, i + 1,
                                          budget, added)
             ELSE IF cache_size + note_size <= budget
                  THEN add_loop_SkipsOversized(Append(cache, note),
                                               cache_size + note_size, new_notes,
                                               i + 1, budget, added + 1)
                  ELSE [add_loop_SkipsOversized(cache, cache_size, new_notes,
                                                i + 1, budget, added)
                            EXCEPT !.limit_reached = TRUE]

\* mutant of add_loop: a new note is put at the front of the store
RECURSIVE add_loop_Prepends(_, _, _, _, _, _)
add_loop_Prepends(cache, cache_size, new_notes, i, budget, added) ==
    IF i > Len(new_notes)
    THEN [cache |-> cache, cache_size |-> cache_size, added |-> added,
          limit_reached |-> FALSE]
    ELSE LET note == new_notes[i]
             note_size == estimate_note_size(note)
         IN  IF \E k \in 1..Len(cache) : cache[k].note_id = note.note_id
             THEN add_loop_Prepends(cache, cache_size, new_notes, i + 1, budget,
                                    added)
             ELSE IF cache_size + note_size <= budget
                  THEN add_loop_Prepends(<<note>> \o cache, cache_size + note_size,
                                         new_notes, i + 1, budget, added + 1)
                  ELSE [cache |-> cache, cache_size |-> cache_size,
                        added |-> added, limit_reached |-> TRUE]


\* the `for note in new_notes` loop from candidate i on
RECURSIVE add_loop(_, _, _, _, _, _)
add_loop(cache, cache_size, new_notes, i, budget, added) ==
    IF i > Len(new_notes)
    THEN [cache |-> cache, cache_size |-> cache_size, added |-> added,
          limit_reached |-> FALSE]
    ELSE LET note == new_notes[i]
             note_size == estimate_note_size(note)
         IN  IF InCache(cache, note)
             THEN add_loop(cache, cache_size, new_notes, i + 1, budget, added)
             ELSE IF Fits(cache_size, note_size, budget)
                  THEN add_loop(Append(cache, note), cache_size + note_size,
                                new_notes, i + 1, budget, added + 1)
                  ELSE [cache |-> cache, cache_size |-> cache_size,
                        added |-> added, limit_reached |-> TRUE]

add_to_cache(cache, cache_size, new_notes, budget) ==
    add_loop(cache, cache_size, new_notes, 1, budget, 0)

(***************************************************************************)
(* draw_screen                                                             *)
(***************************************************************************)
to_lowercase_char(c) ==
    CASE c = "A" -> "a"
      [] c = "B" -> "b"
      [] c = "N" -> "n"
      [] c = "Q" -> "q"
      [] OTHER -> c

to_lowercase(s) == [i \in 1..Len(s) |-> to_lowercase_char(s[i])]

contains(hay, needle) ==
    \E i \in 0..(Len(hay) - Len(needle)) :
        SubSeq(hay, i + 1, i + Len(needle)) = needle

Matches(note, query) ==
    LET query_lower == to_lowercase(query)
    IN  \/ contains(to_lowercase(note.title), query_lower)
        \/ contains(to_lowercase(note.content_plaintext), query_lower)

filtered(notes, query) == SelectSeq(notes, LAMBDA note : Matches(note, query))

filtered_count(notes, query) == Len(filtered(notes, query))

\* the notes draw_screen selects for the table (display_notes)
display_notes(notes, off, soff, lim, query) ==
    IF query /= <<>>
    THEN LET start == soff
             end == Min(start + lim, Len(filtered(notes, query)))
         IN  SubSeq(filtered(notes, query), start + 1, end)
    ELSE LET start == off
             end == Min(start + lim, Len(notes))
         IN  SubSeq(notes, start + 1, end)


draw_screen(notes, err, off, soff, lim, loading, query, mode, fetching_all) ==
    LET searching == query /= <<>>
        total == IF searching THEN filtered_count(notes, query) ELSE Len(notes)
        start == IF searching THEN soff ELSE off
        end == Min(start + lim, total)
        page == (start \div Max(lim, 1)) + 1
    IN  [panel |-> IF loading THEN "loading"
                   ELSE IF err /= NoMsg THEN "error"
                   ELSE "table",
         title |-> IF searching THEN "matches"
                   ELSE IF fetching_all THEN "fetching_all"
                   ELSE "cached",
         message |-> IF loading THEN "Loading notes..." ELSE err,
         searching |-> searching,
         start |-> start,
         end |-> end,
         page |-> page,
         in_range |-> start <= end]

(***************************************************************************)
(* The session                                                             *)
(***************************************************************************)
InitSession(scenarios) ==
    /\ scenario \in scenarios
    /\ pc = "start"
    /\ raw_mode = FALSE
    /\ alt_screen = FALSE
    /\ result = "running"
    /\ offset = 0
    /\ all_notes = <<>>
    /\ cache_size_bytes = 0
    /\ error_msg = NoMsg
    /\ total_fetched = 0
    /\ input_mode = "Normal"
    /\ search_query = <<>>
    /\ search_offset = 0
    /\ is_fetching_all = FALSE
    /\ limit \in {calculate_limit(rows) : rows \in Heights(scenario)}
    /\ fetch_offset = 0
    /\ req = NoReq
    /\ frame = [panel |-> "none", title |-> "none", message |-> NoMsg,
                searching |-> FALSE, start |-> 0, end |-> 0, page |-> 1,
                in_range |-> TRUE]

Init == InitSession(Scenarios)

InitBulk == InitSession(BulkScenarios)

session == <<offset, all_notes, cache_size_bytes, error_msg, total_fetched,
             input_mode, search_query, search_offset, is_fetching_all, limit,
             fetch_offset>>

\* mutant of Redraw: the loading flag is not passed on to draw_screen
RedrawNeverLoading(loading) ==
    frame' = draw_screen(all_notes', error_msg', offset', search_offset', limit',
                         FALSE, search_query', input_mode', is_fetching_all')


\* the draw_screen call at the head of the main loop, on the new state
Redraw(loading) ==
    frame' = draw_screen(all_notes', error_msg', offset', search_offset', limit',
                         loading, search_query', input_mode', is_fetching_all')

\* mutant of Issue: the request is made at the current offset
IssueAtCurrentOffset(kind, lim, off) ==
    req' = [limit |-> lim, offset |-> offset, kind |-> kind]


\* client.list_notes(Some(lim), Some(off)) is called and awaited
Issue(kind, lim, off) == req' = [limit |-> lim, offset |-> off, kind |-> kind]

\* run_app returns; run_list_tui restores the terminal and returns the result.
\* The locals of run_app are dropped with its frame: the store is discarded at
\* the end of the session.  The model resets them to their initial values
\* (limit, which has no unset value, keeps its last one).
Return(res) ==
    /\ pc' = "exited"
    /\ result' = res
    /\ raw_mode' = FALSE
    /\ alt_screen' = FALSE
    /\ req' = NoReq
    /\ offset' = 0
    /\ all_notes' = <<>>
    /\ cache_size_bytes' = 0
    /\ error_msg' = NoMsg
    /\ total_fetched' = 0
    /\ input_mode' = "Normal"
    /\ search_query' = <<>>
    /\ search_offset' = 0
    /\ is_fetching_all' = FALSE
    /\ fetch_offset' = 0
    /\ UNCHANGED <<scenario, limit, frame>>

\* mutant of Insert: a full store drops its oldest note
InsertEvicting(r) ==
    /\ all_notes' = IF r.limit_reached /\ r.cache /= <<>> THEN Tail(r.cache) ELSE r.cache
    /\ cache_size_bytes' = r.cache_size

\* (added, limit_reached) = add_to_cache(&mut all_notes, &mut cache_size_bytes, ..)
Insert(r) ==
    /\ all_notes' = r.cache
    /\ cache_size_bytes' = r.cache_size


(***************************************************************************)
(* run_list_tui up to the first request, and the initial fetch             *)
(***************************************************************************)
StartupSteps == {"enable_raw_mode", "EnterAlternateScreen", "Terminal::new", "draw_screen"}

\* one of the fallible calls before the first request returns an io::Error
StartupFail(step) ==
    /\ pc = "start"
    /\ pc' = "exited"
    /\ result' = "Err"
    /\ raw_mode' = IF step = "draw_screen" THEN FALSE ELSE step /= "enable_raw_mode"
    /\ alt_screen' = (step = "Terminal::new")
    /\ UNCHANGED <<scenario, session, req, frame>>

Startup ==
    /\ pc = "start"
    /\ raw_mode' = TRUE
    /\ alt_screen' = TRUE
    /\ UNCHANGED <<scenario, session, result>>
    /\ Redraw(TRUE)
    /\ Issue("initial", limit, offset)
    /\ pc' = "init_wait"

InitialResponse(ok) ==
    /\ pc = "init_wait"
    /\ IF ok
       THEN LET data == list_notes(req.limit, req.offset)
            IN  /\ total_fetched' = Len(data)
                /\ Insert(add_to_cache(all_notes, cache_size_bytes, data, cache_limit_bytes))
                /\ UNCHANGED error_msg
       ELSE /\ error_msg' = ErrText
            /\ UNCHANGED <<total_fetched, all_notes, cache_size_bytes>>
    /\ req' = NoReq
    /\ pc' = "poll"
    /\ UNCHANGED <<scenario, raw_mode, alt_screen, result, offset, input_mode,
                   search_query, search_offset, is_fetching_all, limit,
                   fetch_offset>>
    /\ Redraw(FALSE)

\* a terminal call of run_app (draw, clear, poll, read) returns an io::Error:
\* `?` returns it from run_app and run_list_tui restores the terminal
TerminalIoError ==
    /\ pc \in {"init_wait", "poll", "adv_wait", "bulk_wait"}
    /\ Return("Err")

(***************************************************************************)
(* The events of the main loop.  Each action reads one event in "poll",    *)
(* runs its match arm and, back at the head of the loop, draws.            *)
(***************************************************************************)
\* the arm ran to its end without awaiting: back to the head of the loop
Handled ==
    /\ pc' = "poll"
    /\ req' = NoReq
    /\ UNCHANGED <<scenario, raw_mode, alt_screen, result>>
    /\ Redraw(FALSE)

\* mutant of Resize: a resize takes the window back to the first page
ResizeResetsOffset(rows) ==
    /\ pc = "poll"
    /\ limit' = calculate_limit(rows)
    /\ offset' = 0
    /\ UNCHANGED <<all_notes, cache_size_bytes, error_msg, total_fetched,
                   input_mode, search_query, search_offset, is_fetching_all,
                   fetch_offset>>
    /\ Handled


Resize(rows) ==
    /\ pc = "poll"
    /\ limit' = calculate_limit(rows)
    /\ UNCHANGED <<offset, all_notes, cache_size_bytes, error_msg, total_fetched,
                   input_mode, search_query, search_offset, is_fetching_all,
                   fetch_offset>>
    /\ Handled

Quit == Return("Ok")

EnterSearch ==
    /\ input_mode' = "Search"
    /\ search_offset' = 0
    /\ UNCHANGED <<offset, all_notes, cache_size_bytes, error_msg, total_fetched,
                   search_query, is_fetching_all, limit, fetch_offset>>
    /\ Handled

\* mutant of StartBulk: Ctrl+A takes the window back to the first page
StartBulkResetsOffset ==
    /\ is_fetching_all' = TRUE
    /\ fetch_offset' = 0
    /\ offset' = 0
    /\ UNCHANGED <<scenario, raw_mode, alt_screen, result, all_notes,
                   cache_size_bytes, error_msg, total_fetched, input_mode,
                   search_query, search_offset, limit>>
    /\ Redraw(FALSE)
    /\ Issue("bulk", FetchLimit, 0)
    /\ pc' = "bulk_wait"

\* mutant of StartBulk: the bulk fetch resumes behind the notes already cached
StartBulkResumes ==
    /\ is_fetching_all' = TRUE
    /\ fetch_offset' = Len(all_notes)
    /\ UNCHANGED <<scenario, raw_mode, alt_screen, result, offset, all_notes,
                   cache_size_bytes, error_msg, total_fetched, input_mode,
                   search_query, search_offset, limit>>
    /\ Redraw(FALSE)
    /\ Issue("bulk", FetchLimit, Len(all_notes))
    /\ pc' = "bulk_wait"


\* Ctrl+A: the first iteration of the loop, up to its request
\* mutant of StartBulk: starting a bulk fetch clears the message
StartBulkClearsMessage ==
    /\ is_fetching_all' = TRUE
    /\ fetch_offset' = 0
    /\ error_msg' = NoMsg
    /\ UNCHANGED <<scenario, raw_mode, alt_screen, result, offset, all_notes,
                   cache_size_bytes, total_fetched, input_mode,
                   search_query, search_offset, limit>>
    /\ Redraw(FALSE)
    /\ Issue("bulk", FetchLimit, 0)
    /\ pc' = "bulk_wait"


StartBulk ==
    /\ is_fetching_all' = TRUE
    /\ fetch_offset' = 0
    /\ UNCHANGED <<scenario, raw_mode, alt_screen, result, offset, all_notes,
                   cache_size_bytes, error_msg, total_fetched, input_mode,
                   search_query, search_offset, limit>>
    /\ Redraw(FALSE)
    /\ Issue("bulk", FetchLimit, 0)
    /\ pc' = "bulk_wait"

PushChar(c) ==
    /\ Len(search_query) < MaxQueryLen
    /\ search_query' = Append(search_query, c)
    /\ search_offset' = 0
    /\ UNCHANGED <<offset, all_notes, cache_size_bytes, error_msg, total_fetched,
                   input_mode, is_fetching_all, limit, fetch_offset>>
    /\ Handled

Ignored ==
    /\ UNCHANGED session
    /\ Handled

\* mutant of KeyChar: 'q' ends the session whatever the input mode
KeyCharQuitInAnyMode(c, ctrl) ==
    /\ pc = "poll"
    /\ IF c = "q" THEN Quit
       ELSE IF c = "/" /\ input_mode = "Normal" THEN EnterSearch
       ELSE IF c = "a" /\ input_mode = "Normal" /\ ctrl THEN StartBulk
       ELSE IF input_mode = "Search" THEN PushChar(c)
       ELSE Ignored


\* mutant of KeyChar: the Ctrl+A arm does not look at the input mode
KeyCharBulkInAnyMode(c, ctrl) ==
    /\ pc = "poll"
    /\ IF c = "q" /\ input_mode = "Normal" THEN Quit
       ELSE IF c = "/" /\ input_mode = "Normal" THEN EnterSearch
       ELSE IF c = "a" /\ ctrl THEN StartBulk
       ELSE IF input_mode = "Search" THEN PushChar(c)
       ELSE Ignored

\* mutant of KeyChar: a character is pushed to the query in Normal mode too
KeyCharPushInAnyMode(c, ctrl) ==
    /\ pc = "poll"
    /\ IF c = "q" /\ input_mode = "Normal" THEN Quit
       ELSE IF c = "/" /\ input_mode = "Normal" THEN EnterSearch
       ELSE IF c = "a" /\ input_mode = "Normal" /\ ctrl THEN StartBulk
       ELSE PushChar(c)


KeyChar(c, ctrl) ==
    /\ pc = "poll"
    /\ IF c = "q" /\ input_mode = "Normal" THEN Quit
       ELSE IF c = "/" /\ input_mode = "Normal" THEN EnterSearch
       ELSE IF c = "a" /\ input_mode = "Normal" /\ ctrl THEN StartBulk
       ELSE IF input_mode = "Search" THEN PushChar(c)
       ELSE Ignored

\* mutant of KeyEsc: leaving Search mode keeps the query
KeyEscKeepsQuery ==
    /\ pc = "poll"
    /\ IF input_mode = "Search"
       THEN /\ input_mode' = "Normal"
            /\ search_offset' = 0
            /\ UNCHANGED <<offset, all_notes, cache_size_bytes, error_msg,
                           total_fetched, is_fetching_all, limit, fetch_offset,
                           search_query>>
            /\ Handled
       ELSE Quit


KeyEsc ==
    /\ pc = "poll"
    /\ IF input_mode = "Search"
       THEN /\ input_mode' = "Normal"
            /\ search_query' = <<>>
            /\ search_offset' = 0
            /\ UNCHANGED <<offset, all_notes, cache_size_bytes, error_msg,
                           total_fetched, is_fetching_all, limit, fetch_offset>>
            /\ Handled
       ELSE Quit

pop(s) == IF s = <<>> THEN s ELSE SubSeq(s, 1, Len(s) - 1)

\* mutant of KeyBackspace: deleting a character keeps the page of the results
KeyBackspaceKeepsOffset ==
    /\ pc = "poll"
    /\ IF input_mode = "Search"
       THEN /\ search_query' = pop(search_query)
            /\ UNCHANGED <<offset, all_notes, cache_size_bytes, error_msg,
                           total_fetched, input_mode, is_fetching_all, limit,
                           fetch_offset, search_offset>>
            /\ Handled
       ELSE Ignored


KeyBackspace ==
    /\ pc = "poll"
    /\ IF input_mode = "Search"
       THEN /\ search_query' = pop(search_query)
            /\ search_offset' = 0
            /\ UNCHANGED <<offset, all_notes, cache_size_bytes, error_msg,
                           total_fetched, input_mode, is_fetching_all, limit,
                           fetch_offset>>
            /\ Handled
       ELSE Ignored

\* an event no arm matches (a function key, the mouse, focus)
OtherEvent ==
    /\ pc = "poll"
    /\ Ignored


\* mutant of KeyRight: the results can be paged one window past their end
KeyRightSearchPastEnd ==
    /\ pc = "poll"
    /\ IF search_query /= <<>>
       THEN /\ search_offset' =
                  IF search_offset + limit <= filtered_count(all_notes, search_query)
                  THEN search_offset + limit
                  ELSE search_offset
            /\ UNCHANGED <<offset, all_notes, cache_size_bytes, error_msg,
                           total_fetched, input_mode, search_query,
                           is_fetching_all, limit, fetch_offset>>
            /\ Handled
       ELSE IF input_mode = "Normal"
       THEN LET next_offset == offset + limit
            IN  IF next_offset < Len(all_notes)
                THEN /\ offset' = next_offset
                     /\ UNCHANGED <<all_notes, cache_size_bytes, error_msg,
                                    total_fetched, input_mode, search_query,
                                    search_offset, is_fetching_all, limit,
                                    fetch_offset>>
                     /\ Handled
                ELSE IF total_fetched = limit
                THEN /\ UNCHANGED <<scenario, raw_mode, alt_screen, result, session>>
                     /\ Redraw(TRUE)
                     /\ Issue("advance", limit, next_offset)
                     /\ pc' = "adv_wait"
                ELSE Ignored
       ELSE Ignored


\* mutant of KeyRight: moving forward inside the cache clears the status message
KeyRightClearsMessage ==
    /\ pc = "poll"
    /\ IF search_query /= <<>>
       THEN /\ search_offset' =
                  IF search_offset + limit < filtered_count(all_notes, search_query)
                  THEN search_offset + limit
                  ELSE search_offset
            /\ UNCHANGED <<offset, all_notes, cache_size_bytes, error_msg,
                           total_fetched, input_mode, search_query,
                           is_fetching_all, limit, fetch_offset>>
            /\ Handled
       ELSE IF input_mode = "Normal"
       THEN LET next_offset == offset + limit
            IN  IF next_offset < Len(all_notes)
                THEN /\ offset' = next_offset
                     /\ error_msg' = NoMsg
                     /\ UNCHANGED <<all_notes, cache_size_bytes,
                                    total_fetched, input_mode, search_query,
                                    search_offset, is_fetching_all, limit,
                                    fetch_offset>>
                     /\ Handled
                ELSE IF total_fetched = limit
                THEN /\ UNCHANGED <<scenario, raw_mode, alt_screen, result, session>>
                     /\ Redraw(TRUE)
                     /\ Issue("advance", limit, next_offset)
                     /\ pc' = "adv_wait"
                ELSE Ignored
       ELSE Ignored


\* mutant of KeyRight: the cached branch also moves to the end of the store
KeyRightCachedPastEnd ==
    /\ pc = "poll"
    /\ IF search_query /= <<>>
       THEN /\ search_offset' =
                  IF search_offset + limit < filtered_count(all_notes, search_query)
                  THEN search_offset + limit
                  ELSE search_offset
            /\ UNCHANGED <<offset, all_notes, cache_size_bytes, error_msg,
                           total_fetched, input_mode, search_query,
                           is_fetching_all, limit, fetch_offset>>
            /\ Handled
       ELSE IF input_mode = "Normal"
       THEN LET next_offset == offset + limit
            IN  IF next_offset <= Len(all_notes)
                THEN /\ offset' = next_offset
                     /\ UNCHANGED <<all_notes, cache_size_bytes, error_msg,
                                    total_fetched, input_mode, search_query,
                                    search_offset, is_fetching_all, limit,
                                    fetch_offset>>
                     /\ Handled
                ELSE IF total_fetched = limit
                THEN /\ UNCHANGED <<scenario, raw_mode, alt_screen, result, session>>
                     /\ Redraw(TRUE)
                     /\ Issue("advance", limit, next_offset)
                     /\ pc' = "adv_wait"
                ELSE Ignored
       ELSE Ignored


KeyRight ==
    /\ pc = "poll"
    /\ IF search_query /= <<>>
       THEN /\ search_offset' =
                  IF search_offset + limit < filtered_count(all_notes, search_query)
                  THEN search_offset + limit
                  ELSE search_offset
            /\ UNCHANGED <<offset, all_notes, cache_size_bytes, error_msg,
                           total_fetched, input_mode, search_query,
                           is_fetching_all, limit, fetch_offset>>
            /\ Handled
       ELSE IF input_mode = "Normal"
       THEN LET next_offset == offset + limit
            IN  IF next_offset < Len(all_notes)
                THEN /\ offset' = next_offset
                     /\ UNCHANGED <<all_notes, cache_size_bytes, error_msg,
                                    total_fetched, input_mode, search_query,
                                    search_offset, is_fetching_all, limit,
                                    fetch_offset>>
                     /\ Handled
                ELSE IF total_fetched = limit
                THEN /\ UNCHANGED <<scenario, raw_mode, alt_screen, result, session>>
                     /\ Redraw(TRUE)
                     /\ Issue("advance", limit, next_offset)
                     /\ pc' = "adv_wait"
                ELSE Ignored
       ELSE Ignored

\* mutant of AdvanceResponse: the window moves when the store reaches the next
\* offset, not only when it extends past it
AdvanceResponseMovesToEnd(ok) ==
    /\ pc = "adv_wait"
    /\ IF ok
       THEN LET data == list_notes(req.limit, req.offset)
                next_offset == req.offset
                r == add_to_cache(all_notes, cache_size_bytes, data, cache_limit_bytes)
            IN  /\ total_fetched' = Len(data)
                /\ Insert(add_to_cache(all_notes, cache_size_bytes, data, cache_limit_bytes))
                /\ IF next_offset <= Len(r.cache)
                   THEN /\ offset' = next_offset
                        /\ error_msg' = NoMsg
                   ELSE IF r.limit_reached
                   THEN /\ error_msg' = MsgCacheFull
                        /\ UNCHANGED offset
                   ELSE UNCHANGED <<offset, error_msg>>
       ELSE /\ error_msg' = ErrText
            /\ UNCHANGED <<offset, total_fetched, all_notes, cache_size_bytes>>
    /\ req' = NoReq
    /\ pc' = "poll"
    /\ UNCHANGED <<scenario, raw_mode, alt_screen, result, input_mode,
                   search_query, search_offset, is_fetching_all, limit,
                   fetch_offset>>
    /\ Redraw(FALSE)

\* mutant of AdvanceResponse: a failed request counts as a page of no notes
AdvanceResponseErrorCountsZero(ok) ==
    /\ pc = "adv_wait"
    /\ IF ok
       THEN LET data == list_notes(req.limit, req.offset)
                next_offset == req.offset
                r == add_to_cache(all_notes, cache_size_bytes, data, cache_limit_bytes)
            IN  /\ total_fetched' = Len(data)
                /\ Insert(add_to_cache(all_notes, cache_size_bytes, data, cache_limit_bytes))
                /\ IF next_offset < Len(r.cache)
                   THEN /\ offset' = next_offset
                        /\ error_msg' = NoMsg
                   ELSE IF r.limit_reached
                   THEN /\ error_msg' = MsgCacheFull
                        /\ UNCHANGED offset
                   ELSE UNCHANGED <<offset, error_msg>>
       ELSE /\ error_msg' = ErrText
            /\ total_fetched' = 0
            /\ UNCHANGED <<offset, all_notes, cache_size_bytes>>
    /\ req' = NoReq
    /\ pc' = "poll"
    /\ UNCHANGED <<scenario, raw_mode, alt_screen, result, input_mode,
                   search_query, search_offset, is_fetching_all, limit,
                   fetch_offset>>
    /\ Redraw(FALSE)


AdvanceResponse(ok) ==
    /\ pc = "adv_wait"
    /\ IF ok
       THEN LET data == list_notes(req.limit, req.offset)
                next_offset == req.offset
                r == add_to_cache(all_notes, cache_size_bytes, data, cache_limit_bytes)
            IN  /\ total_fetched' = Len(data)
                /\ Insert(add_to_cache(all_notes, cache_size_bytes, data, cache_limit_bytes))
                /\ IF next_offset < Len(r.cache)
                   THEN /\ offset' = next_offset
                        /\ error_msg' = NoMsg
                   ELSE IF r.limit_reached
                   THEN /\ error_msg' = MsgCacheFull
                        /\ UNCHANGED offset
                   ELSE UNCHANGED <<offset, error_msg>>
       ELSE /\ error_msg' = ErrText
            /\ UNCHANGED <<offset, total_fetched, all_notes, cache_size_bytes>>
    /\ req' = NoReq
    /\ pc' = "poll"
    /\ UNCHANGED <<scenario, raw_mode, alt_screen, result, input_mode,
                   search_query, search_offset, is_fetching_all, limit,
                   fetch_offset>>
    /\ Redraw(FALSE)

\* mutant of KeyLeft: going back re-fetches the page it lands on
KeyLeftRefetches ==
    /\ pc = "poll"
    /\ input_mode = "Normal" /\ search_query = <<>> /\ offset > 0
    /\ offset' = saturating_sub(offset, limit)
    /\ UNCHANGED <<scenario, raw_mode, alt_screen, result, all_notes,
                   cache_size_bytes, error_msg, total_fetched, input_mode,
                   search_query, search_offset, is_fetching_all, limit,
                   fetch_offset>>
    /\ Redraw(TRUE)
    /\ Issue("advance", limit, saturating_sub(offset, limit))
    /\ pc' = "adv_wait"

KeyLeft ==
    /\ pc = "poll"
    /\ IF search_query /= <<>>
       THEN /\ search_offset' =
                  IF search_offset > 0 THEN saturating_sub(search_offset, limit)
                  ELSE search_offset
            /\ UNCHANGED offset
       ELSE IF input_mode = "Normal" /\ offset > 0
       THEN /\ offset' = saturating_sub(offset, limit)
            /\ UNCHANGED search_offset
       ELSE UNCHANGED <<offset, search_offset>>
    /\ UNCHANGED <<all_notes, cache_size_bytes, error_msg, total_fetched,
                   input_mode, search_query, is_fetching_all, limit,
                   fetch_offset>>
    /\ Handled

\* mutant of MoreToFetch: the loop ends only on an empty page
MoreUntilEmpty(limit_reached, fetched) == ~limit_reached /\ fetched > 0

\* mutant of MoreToFetch: the loop does not look at limit_reached
MoreIgnoringBudget(limit_reached, fetched) == ~(fetched < FetchLimit)

\* whether the Ctrl+A loop goes on after a response: neither `break` is taken
MoreToFetch(limit_reached, fetched) == ~limit_reached /\ ~(fetched < FetchLimit)

\* mutant of BulkResponse: a failed request is reported and tried again
BulkResponseRetriesOnError(ok) ==
    /\ pc = "bulk_wait"
    /\ UNCHANGED <<scenario, raw_mode, alt_screen, result, offset, total_fetched,
                   input_mode, search_query, search_offset, limit>>
    /\ IF ok
       THEN LET data == list_notes(req.limit, req.offset)
                fetched == Len(data)
                r == add_to_cache(all_notes, cache_size_bytes, data, cache_limit_bytes)
                more == MoreToFetch(r.limit_reached, fetched)
            IN  /\ Insert(add_to_cache(all_notes, cache_size_bytes, data, cache_limit_bytes))
                /\ error_msg' = IF r.limit_reached THEN MsgBulkLimit ELSE error_msg
                /\ fetch_offset' = IF more THEN fetch_offset + FetchLimit ELSE 0
                /\ is_fetching_all' = more
                /\ Redraw(FALSE)
                /\ IF more
                   THEN /\ Issue("bulk", FetchLimit, fetch_offset + FetchLimit)
                        /\ pc' = "bulk_wait"
                   ELSE /\ req' = NoReq
                        /\ pc' = "poll"
       ELSE /\ error_msg' = MsgBulkError
            /\ UNCHANGED <<all_notes, cache_size_bytes, fetch_offset, is_fetching_all>>
            /\ Issue("bulk", FetchLimit, fetch_offset)
            /\ pc' = "bulk_wait"
            /\ Redraw(FALSE)

\* mutant of BulkResponse: a transport error leaves the bulk-fetch flag set
BulkResponseLeavesFlag(ok) ==
    /\ pc = "bulk_wait"
    /\ UNCHANGED <<scenario, raw_mode, alt_screen, result, offset, total_fetched,
                   input_mode, search_query, search_offset, limit>>
    /\ IF ok
       THEN LET data == list_notes(req.limit, req.offset)
                fetched == Len(data)
                r == add_to_cache(all_notes, cache_size_bytes, data, cache_limit_bytes)
                more == MoreToFetch(r.limit_reached, fetched)
            IN  /\ Insert(add_to_cache(all_notes, cache_size_bytes, data, cache_limit_bytes))
                /\ error_msg' = IF r.limit_reached THEN MsgBulkLimit ELSE error_msg
                /\ fetch_offset' = IF more THEN fetch_offset + FetchLimit ELSE 0
                /\ is_fetching_all' = more
                /\ Redraw(FALSE)
                /\ IF more
                   THEN /\ Issue("bulk", FetchLimit, fetch_offset + FetchLimit)
                        /\ pc' = "bulk_wait"
                   ELSE /\ req' = NoReq
                        /\ pc' = "poll"
       ELSE /\ error_msg' = MsgBulkError
            /\ fetch_offset' = 0
            /\ is_fetching_all' = is_fetching_all
            /\ UNCHANGED <<all_notes, cache_size_bytes>>
            /\ req' = NoReq
            /\ pc' = "poll"
            /\ Redraw(FALSE)


\* the response of one request of the Ctrl+A loop, and the loop from there to
\* its next request or to its end
BulkResponse(ok) ==
    /\ pc = "bulk_wait"
    /\ UNCHANGED <<scenario, raw_mode, alt_screen, result, offset, total_fetched,
                   input_mode, search_query, search_offset, limit>>
    /\ IF ok
       THEN LET data == list_notes(req.limit, req.offset)
                fetched == Len(data)
                r == add_to_cache(all_notes, cache_size_bytes, data, cache_limit_bytes)
                more == MoreToFetch(r.limit_reached, fetched)
            IN  /\ Insert(add_to_cache(all_notes, cache_size_bytes, data, cache_limit_bytes))
                /\ error_msg' = IF r.limit_reached THEN MsgBulkLimit ELSE error_msg
                /\ fetch_offset' = IF more THEN fetch_offset + FetchLimit ELSE 0
                /\ is_fetching_all' = more
                /\ Redraw(FALSE)
                /\ IF more
                   THEN /\ Issue("bulk", FetchLimit, fetch_offset + FetchLimit)
                        /\ pc' = "bulk_wait"
                   ELSE /\ req' = NoReq
                        /\ pc' = "poll"
       ELSE /\ error_msg' = MsgBulkError
            /\ fetch_offset' = 0
            /\ is_fetching_all' = FALSE
            /\ UNCHANGED <<all_notes, cache_size_bytes>>
            /\ req' = NoReq
            /\ pc' = "poll"
            /\ Redraw(FALSE)

Next ==
    \/ Startup
    \/ \E step \in StartupSteps : StartupFail(step)
    \/ \E ok \in BOOLEAN : InitialResponse(ok)
    \/ TerminalIoError
    \/ \E rows \in Heights(scenario) : Resize(rows)
    \/ \E c \in KeyChars, ctrl \in BOOLEAN : KeyChar(c, ctrl)
    \/ KeyEsc
    \/ KeyBackspace
    \/ OtherEvent
    \/ KeyRight
    \/ \E ok \in BOOLEAN : AdvanceResponse(ok)
    \/ KeyLeft
    \/ \E ok \in BOOLEAN : BulkResponse(ok)

Spec == Init /\ [][Next]_vars

\* Normal-mode browsing and bulk fetch over the large remotes.  Search mode is
\* left to Spec: its events neither issue requests nor touch the store or the
\* page window, and Esc leaves it with the query empty and search_offset 0.
NextBulk ==
    \/ Startup
    \/ \E ok \in BOOLEAN : InitialResponse(ok)
    \/ TerminalIoError
    \/ \E rows \in Heights(scenario) : Resize(rows)
    \/ \E c \in {"q", "a"}, ctrl \in BOOLEAN : KeyChar(c, ctrl)
    \/ KeyRight
    \/ \E ok \in BOOLEAN : AdvanceResponse(ok)
    \/ KeyLeft
    \/ \E ok \in BOOLEAN : BulkResponse(ok)

SpecBulk == InitBulk /\ [][NextBulk]_vars

\* SpecBulk with every awaited list_notes call of the bulk loop returning: the
\* loop body awaits the call and runs on with its result (Ok or Err)
SpecBulkFair == SpecBulk /\ WF_vars(\E ok \in BOOLEAN : BulkResponse(ok))


(***************************************************************************)
(* Properties                                                              *)
(***************************************************************************)
NoteIds(notes) == {notes[k].note_id : k \in 1..Len(notes)}

\* C1: in every reachable state of a session the running cache size
\* cache_size_bytes is at most the byte budget cache_limit_bytes.
C1_SizeWithinBudget == cache_size_bytes <= cache_limit_bytes

\* a note was rejected for the budget while the store holds notes and another
\* remote note would by itself exceed what is left
C1_Witness ==
    /\ error_msg \in {MsgCacheFull, MsgBulkLimit}
    /\ cache_size_bytes > 0
    /\ \E k \in 1..Len(Remote(scenario)) :
           cache_size_bytes + estimate_note_size(Remote(scenario)[k]) > cache_limit_bytes

\* C2: the store never holds two notes with the same note_id; the comparison
\* is on note_id alone, so a note whose note_id is cached under another
\* workspace_id is skipped too.
C2_NoDuplicateNoteId ==
    \A i, j \in 1..Len(all_notes) :
        i /= j => all_notes[i].note_id /= all_notes[j].note_id

\* the store holds n00A of ws1 and a note that follows, in the remote, the
\* n00A of ws2: that candidate was processed and skipped
C2_Witness ==
    /\ scenario = "overlap"
    /\ "n00D" \in NoteIds(all_notes)
    /\ \E k \in 1..Len(all_notes) :
           all_notes[k].note_id = "n00A" /\ all_notes[k].workspace_id = "ws1"
    /\ Len(all_notes) = 3

\* C3: cache_size_bytes is the sum of estimate_note_size over exactly the
\* notes held in the store (0 for the empty store).
C3_SizeIsSumOfEstimates == cache_size_bytes = SumSizes(all_notes)

\* the store holds notes of different estimated sizes after a page with a
\* duplicate was processed
C3_Witness ==
    /\ scenario = "overlap"
    /\ Len(all_notes) = 3
    /\ cache_size_bytes = 11 * BytesPerMb + 300


(***************************************************************************)
(* insert_many, stated without the loop: what add_to_cache must return     *)
(***************************************************************************)
\* candidate j is new: its note_id is neither in the store nor earlier in the page
IsNew(cache, page, j) ==
    /\ page[j].note_id \notin NoteIds(cache)
    /\ \A m \in 1..(j - 1) : page[m].note_id /= page[j].note_id

NewBefore(cache, page, k) ==
    SelectSeq([j \in 1..(k - 1) |-> j], LAMBDA j : IsNew(cache, page, j))

NotesAt(page, idx) == [n \in 1..Len(idx) |-> page[idx[n]]]

\* candidate k is new and does not fit after the new candidates before it
Rejects(cache, cache_size, page, budget, k) ==
    /\ IsNew(cache, page, k)
    /\ cache_size + SumSizes(NotesAt(page, NewBefore(cache, page, k)))
           + estimate_note_size(page[k]) > budget

ExpectedInsert(cache, cache_size, page, budget) ==
    LET rejected == {k \in 1..Len(page) : Rejects(cache, cache_size, page, budget, k)}
        stop == IF rejected = {} THEN Len(page) + 1
                ELSE CHOOSE k \in rejected : \A m \in rejected : k <= m
        kept == NotesAt(page, NewBefore(cache, page, stop))
    IN  [cache |-> cache \o kept,
         cache_size |-> cache_size + SumSizes(kept),
         added |-> Len(kept),
         limit_reached |-> rejected /= {}]

\* the pages a request of the session can return
PageLimits == {calculate_limit(rows) : rows \in Heights(scenario)} \cup {FetchLimit}

Pages == {list_notes(lim, off) : lim \in PageLimits, off \in 0..Len(Remote(scenario))}

\* C4: a candidate whose note_id is already in the store is a no-op for
\* insert_many: store and byte total unchanged, not counted as added, never
\* sets budget_reached (even with no room left), and the candidates after it
\* are processed as if it were not there.
C4_DuplicateIsNoOp ==
    LET data == Remote(scenario)
    IN  \A i \in 1..Len(data) :
            data[i].note_id \in NoteIds(all_notes) =>
                LET rest == list_notes(2, i)
                IN  /\ add_to_cache(all_notes, cache_size_bytes, <<data[i]>>,
                                    cache_limit_bytes)
                         = [cache |-> all_notes, cache_size |-> cache_size_bytes,
                            added |-> 0, limit_reached |-> FALSE]
                    /\ add_to_cache(all_notes, cache_size_bytes, <<data[i]>> \o rest,
                                    cache_limit_bytes)
                         = add_to_cache(all_notes, cache_size_bytes, rest,
                                        cache_limit_bytes)

\* the store has no room for a second copy of a cached note, and a candidate
\* that follows the duplicate in the remote is appended
C4_Witness ==
    /\ pc = "poll"
    /\ \E i \in 1..Len(Remote(scenario)) :
           LET dup == Remote(scenario)[i]
           IN  /\ dup.note_id \in NoteIds(all_notes)
               /\ cache_size_bytes + estimate_note_size(dup) > cache_limit_bytes
               /\ add_to_cache(all_notes, cache_size_bytes,
                               <<dup>> \o list_notes(2, i), cache_limit_bytes).added > 0

\* C5: insert_many processes the candidates in order and stops at the first
\* new candidate that does not fit: budget_reached = true, none of the later
\* candidates is appended even if it would fit, and added_count is the number
\* appended before that point ([A(10MB), B(5MB)] into an empty 12MB store
\* gives added = 1, budget_reached = true).
C5_InsertShortCircuits ==
    /\ \A page \in Pages :
           add_to_cache(all_notes, cache_size_bytes, page, cache_limit_bytes)
               = ExpectedInsert(all_notes, cache_size_bytes, page, cache_limit_bytes)
    /\ (scenario = "order" /\ all_notes = <<>>) =>
           add_to_cache(all_notes, cache_size_bytes, list_notes(2, 0), cache_limit_bytes)
               = [cache |-> <<RemoteOrder[1]>>,
                  cache_size |-> 10 * BytesPerMb,
                  added |-> 1, limit_reached |-> TRUE]

\* the page [A, B, C] went into the empty 12 MB store: A is held, B was
\* rejected, and C, which would fit, was not appended
C5_Witness ==
    /\ scenario = "order"
    /\ pc = "poll"
    /\ total_fetched = 3
    /\ all_notes = <<RemoteOrder[1]>>
    /\ cache_size_bytes + estimate_note_size(RemoteOrder[3]) <= cache_limit_bytes

\* C6: the store is append-only while the session runs: across every step the
\* old note sequence is a prefix of the new one and the byte total does not
\* decrease, also after the budget has been reached.
C6_AppendOnly ==
    [][pc' /= "exited" =>
          /\ IsPrefix(all_notes, all_notes')
          /\ cache_size_bytes <= cache_size_bytes']_vars

\* the budget was reached with notes in the store, and a further request that
\* will be inserted is in flight
C6_Witness ==
    /\ error_msg \in {MsgCacheFull, MsgBulkLimit}
    /\ Len(all_notes) >= 2
    /\ pc \in {"adv_wait", "bulk_wait"}

\* C7: Left never issues a remote request, in either input mode and for any
\* offset, limit and store; it leaves the store and its byte total unchanged.
C7_LeftNeverFetches ==
    [][KeyLeft =>
          /\ pc' = "poll"
          /\ req' = NoReq
          /\ UNCHANGED <<all_notes, cache_size_bytes>>]_vars

\* Left is taken with offset > 0 and moves the window back
C7_Witness ==
    /\ pc = "poll"
    /\ offset > 0
    /\ ENABLED (KeyLeft /\ offset' < offset)

\* C8: while the input mode is Search no event read by the loop issues a
\* remote request, and the store is unchanged by it.
C8_SearchNeverFetches ==
    [][(pc = "poll" /\ input_mode = "Search" /\ pc' /= "exited") =>
          /\ pc' = "poll"
          /\ req' = NoReq
          /\ UNCHANGED <<all_notes, cache_size_bytes>>]_vars

\* Search mode, at the end of the cache after a full page (where Right in
\* Normal mode would fetch), with Ctrl+A and Right about to be read
C8_Witness ==
    /\ pc = "poll"
    /\ input_mode = "Search"
    /\ total_fetched = limit
    /\ offset + limit >= Len(all_notes)
    /\ ENABLED KeyChar("a", TRUE)
    /\ ENABLED KeyRight


(***************************************************************************)
(* Bulk fetch over the large remotes (SpecBulk)                            *)
(***************************************************************************)
DistinctIds(notes) == Cardinality(NoteIds(notes)) = Len(notes)

\* the remotes of distinct notes that fit the budget of their session
FittingScenarios ==
    {sc \in BulkScenarios :
        /\ DistinctIds(Remote(sc))
        /\ SumSizes(Remote(sc)) <= cache_limit_mb(sc) * 1024 * 1024}

\* the remotes of distinct notes of one size that do not all fit
EqualSizeOverBudget ==
    {sc \in BulkScenarios :
        /\ DistinctIds(Remote(sc))
        /\ \A k \in 1..Len(Remote(sc)) :
               estimate_note_size(Remote(sc)[k]) = estimate_note_size(Remote(sc)[1])
        /\ SumSizes(Remote(sc)) > cache_limit_mb(sc) * 1024 * 1024}

\* C9: bulk fetch over a stable remote of N distinct notes that fit the budget
\* requests 50 notes at offsets 0, 50, 100, ..., stops right after the first
\* response shorter than 50, which is the one at offset 50 * floor(N / 50)
\* (floor(N / 50) + 1 requests), sets no message, and leaves all N notes in
\* the store, whatever the store held before.
C9_BulkFetchReadsEveryPage ==
    [][/\ (pc' = "bulk_wait" /\ req' /= req) =>
              /\ req'.limit = FetchLimit
              /\ req'.offset = IF pc = "bulk_wait" THEN req.offset + FetchLimit ELSE 0
       /\ (scenario \in FittingScenarios /\ BulkResponse(TRUE)) =>
              LET N == Len(Remote(scenario))
                  fetched == Len(list_notes(req.limit, req.offset))
              IN  /\ (pc' = "poll") <=> (fetched < FetchLimit)
                  /\ error_msg' = error_msg
                  /\ pc' = "poll" =>
                        /\ req.offset = FetchLimit * (N \div FetchLimit)
                        /\ Len(all_notes') = N
                        /\ NoteIds(all_notes') = NoteIds(Remote(scenario))]_vars

\* the bulk fetch over the remote of 130 notes has ended after its third
\* request (pages of 50, 50 and 30) with all 130 notes in the store, a page of
\* 50 having been cached by the initial fetch
C9_Witness ==
    /\ scenario = "bulk130"
    /\ pc = "poll"
    /\ total_fetched = 50
    /\ Len(all_notes) = 130
    /\ error_msg = NoMsg

\* C10: when the insert of a page received by the bulk fetch reports
\* budget_reached, the loop issues no further request, sets the 'Cache limit
\* reached' status and keeps every note admitted so far; over distinct notes of
\* one size s that do not all fit a budget B the store ends with floor(B / s)
\* notes (174 of the 200 notes of 6000 bytes under 1 MB).
C10_BulkFetchStopsOnBudget ==
    [][(BulkResponse(TRUE)
          /\ add_to_cache(all_notes, cache_size_bytes,
                          list_notes(req.limit, req.offset),
                          cache_limit_bytes).limit_reached) =>
          /\ pc' = "poll"
          /\ req' = NoReq
          /\ error_msg' = MsgBulkLimit
          /\ IsPrefix(all_notes, all_notes')
          /\ scenario \in EqualSizeOverBudget =>
                Len(all_notes') = cache_limit_bytes
                                     \div estimate_note_size(Remote(scenario)[1])
          /\ scenario = "budget200" => Len(all_notes') = 174]_vars

\* the bulk fetch over the 200 notes of 6000 bytes has stopped on the 1 MB
\* budget with 174 notes in the store
C10_Witness ==
    /\ scenario = "budget200"
    /\ pc = "poll"
    /\ error_msg = MsgBulkLimit
    /\ Len(all_notes) = 174
    /\ Len(all_notes) < Len(Remote(scenario))

\* C11: a transport error during bulk fetch is not fatal: the loop ends without
\* another request, the store and its byte total are as before the failed
\* request, the error is set as the status message and rendered, and the
\* session is back at polling input in Normal mode.
C11_BulkErrorIsNonFatal ==
    [][BulkResponse(FALSE) =>
          /\ pc' = "poll"
          /\ req' = NoReq
          /\ result' = "running"
          /\ UNCHANGED <<all_notes, cache_size_bytes>>
          /\ error_msg' = MsgBulkError
          /\ frame'.message = MsgBulkError
          /\ is_fetching_all' = FALSE
          /\ input_mode' = "Normal"]_vars

\* the third request of the bulk fetch over 130 notes failed: the 100 notes of
\* the first two pages are in the store and the error is on screen
C11_Witness ==
    /\ scenario = "bulk130"
    /\ pc = "poll"
    /\ result = "running"
    /\ Len(all_notes) = 100
    /\ error_msg = MsgBulkError
    /\ frame.panel = "error"
    /\ input_mode = "Normal"

\* C12: a bulk fetch does not touch the browsing cursors: from the Ctrl+A key
\* press to the end of the loop (end of data, budget reached or transport
\* error) offset, limit, total_fetched, search_offset, input_mode and
\* search_query keep their values.
C12_BulkFetchKeepsCursors ==
    [][(\/ pc = "poll" /\ pc' = "bulk_wait"
        \/ pc = "bulk_wait" /\ pc' /= "exited") =>
          UNCHANGED <<offset, limit, total_fetched, search_offset, input_mode,
                      search_query>>]_vars

\* a bulk fetch that started on the second page of a 25-row window has read
\* the 130 notes: the window is still on the second page
C12_Witness ==
    /\ scenario = "bulk130"
    /\ pc = "poll"
    /\ Len(all_notes) = 130
    /\ offset = 25
    /\ limit = 25
    /\ total_fetched = 25

\* C13: Right in Normal mode with offset + limit < store length moves the
\* window forward by exactly limit, issues no request, and leaves the store,
\* its byte total, total_fetched and the status message as they were.
C13_RightAdvancesInCache ==
    [][(KeyRight /\ input_mode = "Normal" /\ offset + limit < Len(all_notes)) =>
          /\ offset' = offset + limit
          /\ pc' = "poll"
          /\ req' = NoReq
          /\ UNCHANGED <<all_notes, cache_size_bytes, total_fetched, error_msg>>]_vars

\* Normal mode with the next window inside the cache, a status message set,
\* and Right about to be read
C13_Witness ==
    /\ pc = "poll"
    /\ input_mode = "Normal"
    /\ offset + limit < Len(all_notes)
    /\ error_msg /= NoMsg
    /\ ENABLED (KeyRight /\ offset' = offset + limit)

\* C14: Right in Normal mode with offset + limit >= store length issues a
\* request exactly when total_fetched = limit, and the request is
\* list_notes(limit, offset + limit); when the counts differ no request is
\* issued and offset, store and status are unchanged.
C14_RightFetchesAfterFullPage ==
    [][(KeyRight /\ input_mode = "Normal" /\ offset + limit >= Len(all_notes)) =>
          IF total_fetched = limit
          THEN /\ pc' = "adv_wait"
               /\ req' = [limit |-> limit, offset |-> offset + limit, kind |-> "advance"]
               /\ UNCHANGED <<offset, all_notes, cache_size_bytes, error_msg>>
          ELSE /\ pc' = "poll"
               /\ req' = NoReq
               /\ UNCHANGED <<offset, all_notes, cache_size_bytes, error_msg>>]_vars

\* a request of an advance from a window that is not the first is in flight
C14_Witness ==
    /\ pc = "adv_wait"
    /\ offset > 0
    /\ total_fetched = limit
    /\ req = [limit |-> limit, offset |-> offset + limit, kind |-> "advance"]

\* C15: after a successful advance fetch the offset becomes offset + limit
\* exactly when the store, after the insert, is longer than offset + limit;
\* otherwise the offset keeps its old value, and if moreover the budget was not
\* hit the step sets no error or status message.
C15_AdvanceCommitsWhenStoreExtends ==
    [][AdvanceResponse(TRUE) =>
          LET r == add_to_cache(all_notes, cache_size_bytes,
                                list_notes(req.limit, req.offset), cache_limit_bytes)
          IN  /\ req.offset = offset + limit
              /\ all_notes' = r.cache
              /\ IF Len(all_notes') > offset + limit
                 THEN offset' = offset + limit
                 ELSE /\ offset' = offset
                      /\ ~r.limit_reached => error_msg' = error_msg]_vars

\* an advance from the last page was answered with no notes: the window has
\* not moved and there is no message
C15_Witness ==
    /\ scenario = "small"
    /\ pc = "poll"
    /\ limit = 2
    /\ offset = 2
    /\ Len(all_notes) = 4
    /\ total_fetched = 0
    /\ error_msg = NoMsg

\* C16: when the request of an advance fails with a transport error, offset,
\* store, byte total and total_fetched are as before the key press, the error
\* text is the status message, and the session keeps running.
C16_AdvanceErrorKeepsState ==
    [][/\ (KeyRight /\ pc' = "adv_wait") =>
              UNCHANGED <<offset, all_notes, cache_size_bytes, total_fetched>>
       /\ AdvanceResponse(FALSE) =>
              /\ UNCHANGED <<offset, all_notes, cache_size_bytes, total_fetched>>
              /\ error_msg' = ErrText
              /\ frame'.message = ErrText
              /\ pc' = "poll"
              /\ req' = NoReq
              /\ result' = "running"]_vars

\* the request of an advance from the second page failed: the window, the
\* store and the count of the last page are kept and the error is on screen
C16_Witness ==
    /\ pc = "poll"
    /\ result = "running"
    /\ error_msg = ErrText
    /\ frame.panel = "error"
    /\ offset > 0
    /\ total_fetched = limit
    /\ offset + limit >= Len(all_notes)
    /\ all_notes /= <<>>

\* C17: whenever the insert of an advance fetch reports budget_reached, the
\* 'cache full' status message is set and rendered after that advance, and the
\* session continues.
C17_AdvanceBudgetSurfacesCacheFull ==
    [][(AdvanceResponse(TRUE)
          /\ add_to_cache(all_notes, cache_size_bytes,
                          list_notes(req.limit, req.offset),
                          cache_limit_bytes).limit_reached) =>
          /\ error_msg' = MsgCacheFull
          /\ frame'.message = MsgCacheFull
          /\ pc' = "poll"
          /\ result' = "running"]_vars

\* the page [n00F, n00B] of an advance went into the store [n00A, n00C]: n00F
\* was admitted, n00B was rejected for the budget, and no message is shown
C17_Witness ==
    /\ scenario = "partial"
    /\ pc = "poll"
    /\ limit = 2
    /\ total_fetched = 2
    /\ NoteIds(all_notes) = {"n00A", "n00C", "n00F"}
    /\ add_to_cache(<<RemotePartial[1], RemotePartial[2]>>,
                    SumSizes(<<RemotePartial[1], RemotePartial[2]>>),
                    list_notes(2, 2), cache_limit_bytes).limit_reached
    /\ error_msg = NoMsg
    /\ frame.panel = "table"

\* C18: on an advance whose page hits the budget part-way through (some new
\* notes admitted, then budget_reached) the offset keeps its value from before
\* the key press.
C18_PartialAdvanceKeepsOffset ==
    [][(AdvanceResponse(TRUE)
          /\ add_to_cache(all_notes, cache_size_bytes,
                          list_notes(req.limit, req.offset),
                          cache_limit_bytes).limit_reached
          /\ add_to_cache(all_notes, cache_size_bytes,
                          list_notes(req.limit, req.offset),
                          cache_limit_bytes).added > 0) =>
          offset' = offset]_vars

\* the advance from offset 0 whose page [n00F, n00B] hit the budget after
\* n00F has moved the window to offset 2
C18_Witness ==
    /\ scenario = "partial"
    /\ pc = "poll"
    /\ limit = 2
    /\ total_fetched = 2
    /\ Len(all_notes) = 3
    /\ all_notes[3].note_id = "n00F"
    /\ "n00B" \notin NoteIds(all_notes)
    /\ offset = 2

\* what a resize to the given height does to everything but the rendered window
ResizeFrame(rows) ==
    /\ limit' = calculate_limit(rows)
    /\ UNCHANGED <<offset, search_offset, all_notes, cache_size_bytes,
                   total_fetched, input_mode, search_query, error_msg>>
    /\ pc' = "poll"
    /\ req' = NoReq

\* C19 as stated: a resize replaces limit with the value derived from the new
\* height and changes nothing else, issues no request, and the next render
\* reads the window [offset, offset + limit) clamped to the store.
C19_ResizeRendersOffsetWindow ==
    [][\A rows \in Heights(scenario) :
          Resize(rows) =>
              /\ ResizeFrame(rows)
              /\ frame'.start = offset
              /\ frame'.end = Min(offset + limit', Len(all_notes))]_vars

\* C19, amended: a resize replaces limit with the value derived from the new
\* height and changes nothing else, issues no request, and the next render
\* reads from the cache the window [offset, offset + limit) clamped to the
\* store when the query is empty, and the window [search_offset,
\* search_offset + limit) clamped to the matching notes when it is not.
C19_ResizeChangesOnlyLimit ==
    [][\A rows \in Heights(scenario) :
          Resize(rows) =>
              /\ ResizeFrame(rows)
              /\ frame'.panel /= "loading"
              /\ IF search_query = <<>>
                 THEN /\ frame'.start = offset
                      /\ frame'.end = Min(offset + limit', Len(all_notes))
                 ELSE /\ frame'.start = search_offset
                      /\ frame'.end = Min(search_offset + limit',
                                          filtered_count(all_notes, search_query))]_vars

\* a session on a later page, with a query that not every cached note
\* matches, about to read a resize that changes limit
C19_Witness ==
    /\ pc = "poll"
    /\ offset > 0
    /\ search_query /= <<>>
    /\ filtered_count(all_notes, search_query) < Len(all_notes)
    /\ \E rows \in Heights(scenario) : ENABLED (Resize(rows) /\ limit' /= limit)

\* limit and the limits of the requests are in range and as calculate_limit gives
LimitInRange ==
    /\ 1 <= limit /\ limit <= 50
    /\ \E rows \in Heights(scenario) : limit = clamp(Max(rows - 7, 0), 1, 50)
    /\ req.kind \in {"initial", "advance"} => req.limit = limit
    /\ req.kind = "bulk" => req.limit = 50
    /\ \A rows \in {0, 1, 6, 7, 8, 32, 56, 57, 58, 65535} :
           /\ calculate_limit(rows) = clamp(Max(rows - 7, 0), 1, 50)
           /\ rows <= 7 => calculate_limit(rows) = 1
           /\ rows >= 57 => calculate_limit(rows) = 50

C21_KeysGatedByMode ==
    [][\A c \in KeyChars, ctrl \in BOOLEAN :
          KeyChar(c, ctrl) =>
              IF input_mode = "Search"
              THEN /\ search_query' = Append(search_query, c)
                   /\ pc' = "poll"
                   /\ req' = NoReq
                   /\ result' = "running"
                   /\ is_fetching_all' = FALSE
              ELSE /\ search_query' = search_query
                   /\ pc' = "exited" <=> c = "q"
                   /\ pc' = "exited" => result' = "Ok"]_vars

\* Search mode after 'q' and then '/' were typed: both are in the query and
\* the session is running
C21_Witness ==
    /\ pc = "poll"
    /\ result = "running"
    /\ input_mode = "Search"
    /\ search_query = <<"q", "/">>
    /\ all_notes /= <<>>

\* C22: '/' in Normal mode switches to Search mode with search offset 0; Esc
\* in Search mode switches to Normal mode, empties the query and sets the
\* search offset to 0, leaving the normal offset and the store unchanged; Esc
\* in Normal mode ends the session; no other event of a running session
\* changes the input mode.
C22_ModeTransitions ==
    [][/\ (input_mode = "Normal" /\ \E ctrl \in BOOLEAN : KeyChar("/", ctrl)) =>
              /\ input_mode' = "Search"
              /\ search_offset' = 0
              /\ pc' = "poll"
       /\ (input_mode = "Search" /\ KeyEsc) =>
              /\ input_mode' = "Normal"
              /\ search_query' = <<>>
              /\ search_offset' = 0
              /\ UNCHANGED <<offset, all_notes, cache_size_bytes>>
              /\ pc' = "poll"
              /\ result' = "running"
       /\ (input_mode = "Normal" /\ KeyEsc) =>
              /\ pc' = "exited"
              /\ result' = "Ok"
              /\ ~raw_mode' /\ ~alt_screen'
       /\ (input_mode' /= input_mode /\ pc' /= "exited") =>
              \/ input_mode = "Normal" /\ \E ctrl \in BOOLEAN : KeyChar("/", ctrl)
              \/ input_mode = "Search" /\ KeyEsc]_vars

\* Search mode on a later page of the results of a query, the normal window
\* on a later page too, with Esc about to be read
C22_Witness ==
    /\ pc = "poll"
    /\ input_mode = "Search"
    /\ search_query /= <<>>
    /\ search_offset > 0
    /\ offset > 0
    /\ ENABLED (KeyEsc /\ input_mode' = "Normal")

\* C23: every change of the query in Search mode, by a character or by
\* Backspace (also on the empty query), sets the search offset to 0 and leaves
\* the normal offset unchanged.
C23_QueryEditResetsSearchOffset ==
    [][(input_mode = "Search"
          /\ (KeyBackspace \/ \E c \in KeyChars, ctrl \in BOOLEAN : KeyChar(c, ctrl))) =>
          /\ search_offset' = 0
          /\ offset' = offset
          /\ input_mode' = "Search"
          /\ (KeyBackspace => search_query' = pop(search_query))]_vars

\* Search mode on a later page of the results, the normal window on a later
\* page, with Backspace and a character about to be read
C23_Witness ==
    /\ pc = "poll"
    /\ input_mode = "Search"
    /\ search_offset > 0
    /\ offset > 0
    /\ Len(search_query) = 1
    /\ ENABLED (KeyBackspace /\ search_query' = <<>>)
    /\ ENABLED KeyChar("N", FALSE)

\* search_offset is 0 or inside the notes matching the query, and the window
\* of the last render was a valid slice
SearchOffsetInRange ==
    /\ \/ search_offset = 0
       \/ search_offset < filtered_count(all_notes, search_query)
    /\ frame.in_range

\* C24: with a non-empty query Right adds limit to the search offset only when
\* search_offset + limit < the number of matches and is otherwise a no-op, and
\* Left subtracts limit saturating at 0; in every reachable state the search
\* offset is 0 or less than the number of notes matching the query, so the
\* rendered slice of matches is never out of range.
C24_SearchOffsetStaysInRange ==
    [][/\ SearchOffsetInRange
       /\ SearchOffsetInRange'
       /\ (search_query /= <<>> /\ KeyRight) =>
              /\ search_offset' =
                     IF search_offset + limit < filtered_count(all_notes, search_query)
                     THEN search_offset + limit
                     ELSE search_offset
              /\ UNCHANGED <<offset, all_notes, search_query>>
              /\ req' = NoReq
       /\ (search_query /= <<>> /\ KeyLeft) =>
              /\ search_offset' = Max(search_offset - limit, 0)
              /\ UNCHANGED <<offset, all_notes, search_query>>
              /\ req' = NoReq]_vars

\* the last page of the results of a query, reached with a smaller window
\* than the current one: Right is a no-op and Left saturates at 0
C24_Witness ==
    /\ pc = "poll"
    /\ search_query /= <<>>
    /\ search_offset > 0
    /\ search_offset < limit
    /\ ENABLED (KeyRight /\ search_offset' = search_offset)
    /\ ENABLED (KeyLeft /\ search_offset' = 0)

\* a and b are the same text up to the case of their characters
SameIgnoringCase(a, b) ==
    /\ Len(a) = Len(b)
    /\ \A i \in 1..Len(a) : to_lowercase_char(a[i]) = to_lowercase_char(b[i])

\* text has a run of characters equal to query up to case
ContainsIgnoringCase(text, query) ==
    \E i \in 0..(Len(text) - Len(query)) :
        SameIgnoringCase(SubSeq(text, i + 1, i + Len(query)), query)

\* the notes of the store whose title or plain-text content contains the query
MatchingNotes(notes, query) ==
    SelectSeq(notes, LAMBDA n : \/ ContainsIgnoringCase(n.title, query)
                                \/ ContainsIgnoringCase(n.content_plaintext, query))

\* for a non-empty query the notes displayed are the window at search_offset
\* of exactly the notes whose title or content contains it, case-insensitively
NonEmptyQueryShowsMatches ==
    search_query /= <<>> =>
        LET m == MatchingNotes(all_notes, search_query)
        IN  display_notes(all_notes, offset, search_offset, limit, search_query)
                = SubSeq(m, search_offset + 1, Min(search_offset + limit, Len(m)))

\* C25: whenever the query is empty in the search view (right after '/', or
\* after the last character was deleted) the notes it exposes for display are
\* none; for a non-empty query they are exactly the notes whose title or
\* plain-text content contains the query case-insensitively.
C25_EmptyQueryShowsNothing ==
    /\ (input_mode = "Search" /\ search_query = <<>>) =>
           display_notes(all_notes, offset, search_offset, limit, search_query) = <<>>
    /\ NonEmptyQueryShowsMatches

\* Search mode with the empty query over a store of notes: the table shows
\* the window of the store at offset
C25_Witness ==
    /\ pc = "poll"
    /\ input_mode = "Search"
    /\ search_query = <<>>
    /\ frame.panel = "table"
    /\ ~frame.searching
    /\ display_notes(all_notes, offset, search_offset, limit, search_query) /= <<>>

\* C26: during a bulk fetch every request is immediately preceded by a render
\* that shows the 'fetching' status, in every state in which a bulk fetch can
\* be started (also when a message of an earlier operation is still set).
C26_BulkRequestShowsFetching ==
    [][(pc' = "bulk_wait" /\ (pc = "poll" \/ req' /= req)) =>
          /\ frame'.panel = "table"
          /\ frame'.title = "fetching_all"]_vars

\* a bulk request is in flight behind the error panel of an earlier failure
C26_Witness ==
    /\ pc = "bulk_wait"
    /\ is_fetching_all
    /\ error_msg /= NoMsg
    /\ frame.panel = "error"
    /\ frame.message = error_msg

\* C27: every page request (the initial fetch and every fetch of an advance)
\* is immediately preceded by a render with the loading status, drawn with the
\* offset the window had before the request, and no input event is read
\* between that render and the response or error.
C27_PageRequestShowsLoading ==
    [][/\ (pc' \in {"init_wait", "adv_wait"}) =>
              /\ pc \in {"start", "poll"}
              /\ req'.kind = IF pc = "start" THEN "initial" ELSE "advance"
              /\ frame'.panel = "loading"
              /\ frame'.message = "Loading notes..."
              /\ frame'.start = offset
              /\ offset' = offset
       /\ (pc \in {"init_wait", "adv_wait"}) =>
              /\ pc' \in {"poll", "exited"}
              /\ \/ \E ok \in BOOLEAN : InitialResponse(ok)
                 \/ \E ok \in BOOLEAN : AdvanceResponse(ok)
                 \/ TerminalIoError
              /\ UNCHANGED <<input_mode, search_query, search_offset, limit>>
                     \/ pc' = "exited"]_vars

\* the request of an advance from a later page is in flight behind the
\* loading panel, drawn over the window at the old offset, with a message of
\* an earlier operation still set
C27_Witness ==
    /\ pc = "adv_wait"
    /\ offset > 0
    /\ error_msg /= NoMsg
    /\ frame.panel = "loading"
    /\ frame.start = offset
    /\ req.offset = offset + limit

\* C28: on every path by which the session ends after raw mode was enabled
\* (quit, an I/O error while entering the alternate screen or creating the
\* terminal, an I/O error from rendering or polling), raw mode is disabled and
\* the alternate screen is left before run_list_tui returns.
C28_TerminalAlwaysRestored ==
    pc = "exited" => (~raw_mode /\ ~alt_screen)

\* run_list_tui has returned an error with the terminal still in raw mode
C28_Witness ==
    /\ pc = "exited"
    /\ result = "Err"
    /\ raw_mode

\* C29: once an insert has reported budget_reached, no later insert of the
\* session appends a note: store length and byte total stay constant.  The two
\* 'Cache limit reached' messages are set only when an insert has reported
\* budget_reached, so while one of them is set the store must not grow.
C29_BudgetReachedHaltsGrowth ==
    [][(error_msg \in {MsgCacheFull, MsgBulkLimit} /\ pc' /= "exited") =>
          /\ all_notes' = all_notes
          /\ cache_size_bytes' = cache_size_bytes]_vars

\* n00B (5 MB) was rejected by the 12 MB budget behind n00A (10 MB), and the
\* later n00C (1 MB) is in the store: every request that returns n00C without
\* n00C being cached also returned n00B, or followed a page that did
C29_Witness ==
    /\ scenario = "order"
    /\ pc = "poll"
    /\ NoteIds(all_notes) = {"n00A", "n00C"}
    /\ cache_size_bytes = 11 * BytesPerMb

\* C30: with a stable remote of distinct notes and a budget that is never
\* reached, in every state with offset k > 0 the store holds the remote notes
\* of positions 0..k-1 at those positions, and the store is a gap-free prefix
\* of the remote sequence.
C30_StoreIsPrefixOfRemote ==
    (scenario \in FittingScenarios /\ offset > 0) =>
        /\ offset <= Len(all_notes)
        /\ \A i \in 1..offset : all_notes[i] = Remote(scenario)[i]
        /\ IsPrefix(all_notes, Remote(scenario))

\* the window is at offset 75 of a store of 100 notes that holds the remote
\* notes 1..50 and 76..125: the notes 51..75 were never requested
C30_Witness ==
    /\ scenario = "bulk130"
    /\ pc = "poll"
    /\ offset = 75
    /\ Len(all_notes) = 100
    /\ all_notes[51] = Remote(scenario)[76]
    /\ PadId(51) \notin NoteIds(all_notes)

\* the note whose eight strings are empty, and the eight notes with exactly
\* one string of one character
EmptyNote ==
    [workspace_id |-> "", note_id |-> "",
     parent_object_cap |-> 0, parent_record_id_cap |-> 0,
     title |-> <<>>, content_plaintext |-> <<>>,
     content_markdown_cap |-> 0, created_at_cap |-> 0]

OneFieldNotes ==
    { [EmptyNote EXCEPT !.workspace_id = "w"],
      [EmptyNote EXCEPT !.note_id = "n"],
      [EmptyNote EXCEPT !.parent_object_cap = 1],
      [EmptyNote EXCEPT !.parent_record_id_cap = 1],
      [EmptyNote EXCEPT !.title = <<"a">>],
      [EmptyNote EXCEPT !.content_plaintext = <<"a">>],
      [EmptyNote EXCEPT !.content_markdown_cap = 1],
      [EmptyNote EXCEPT !.created_at_cap = 1] }

\* the sizes of the eight strings of a note
StringBytes(note) ==
    Len(note.workspace_id) + Len(note.note_id) + note.parent_object_cap
        + note.parent_record_id_cap + Len(note.title) + Len(note.content_plaintext)
        + note.content_markdown_cap + note.created_at_cap

\* the notes the estimators are applied to in a state: the remote notes of the
\* session, the stored ones, and the corner cases
EstimatedNotes ==
    {Remote(scenario)[k] : k \in 1..Len(Remote(scenario))}
        \cup {all_notes[k] : k \in 1..Len(all_notes)}
        \cup {EmptyNote} \cup OneFieldNotes

\* C31: the size estimate of a note is the fixed base cost plus the sizes of
\* its eight strings: at least the base cost, strictly greater when a string
\* is non-empty, and the same from cache::estimate_note_size and from
\* Note::estimate_size_bytes.
C31_EstimateIsBasePlusStrings ==
    /\ \A note \in EstimatedNotes :
           /\ estimate_note_size(note) = 192 + StringBytes(note)
           /\ estimate_note_size(note) >= 192
           /\ StringBytes(note) > 0 => estimate_note_size(note) > 192
           /\ estimate_size_bytes(note) = estimate_note_size(note)
    /\ estimate_note_size(EmptyNote) = 192
    /\ \A note \in OneFieldNotes : estimate_note_size(note) = 193

\* the store holds notes of different estimates, each above the base cost,
\* and the byte total is their sum by either estimator
C31_Witness ==
    /\ Len(all_notes) >= 2
    /\ estimate_note_size(all_notes[1]) /= estimate_note_size(all_notes[2])
    /\ estimate_size_bytes(all_notes[1]) > NoteStructSize
    /\ cache_size_bytes =
           estimate_size_bytes(all_notes[1]) + estimate_size_bytes(all_notes[2])

\* C32: total_fetched always equals the number of items returned by the most
\* recent successful remote fetch, whichever operation issued it: every
\* successful response of the initial fetch, of an advance or of the bulk
\* loop sets it to the length of the page received.
C32_TotalFetchedIsLastPageLength ==
    [][(\/ InitialResponse(TRUE)
        \/ AdvanceResponse(TRUE)
        \/ BulkResponse(TRUE)) =>
          total_fetched' = Len(list_notes(req.limit, req.offset))]_vars

\* the bulk fetch over the 130 notes has ended with the page of 30 notes at
\* offset 100, and total_fetched is still the 50 of the initial fetch
C32_Witness ==
    /\ scenario = "bulk130"
    /\ pc = "poll"
    /\ Len(all_notes) = 130
    /\ offset = 0
    /\ limit = 50
    /\ total_fetched = 50

\* C33: Right in Normal mode with offset + limit >= store length declines to
\* fetch only if the most recent page request returned fewer notes than it
\* asked for; after a resize that changed limit, or after a failed initial
\* fetch, Right at the end of the cache still issues a request.  Two states
\* tell what the most recent page request did: total_fetched = 50 (it asked
\* for at most 50 and got 50, a full page), and an empty store with the error
\* of the initial fetch set (it failed, and none was issued since).
C33_RightFetchesUnlessShortPage ==
    (/\ pc = "poll"
     /\ input_mode = "Normal"
     /\ offset + limit >= Len(all_notes)
     /\ \/ total_fetched = MaxLimit
        \/ all_notes = <<>> /\ error_msg = ErrText) =>
        ENABLED (/\ KeyRight
                 /\ pc' = "adv_wait"
                 /\ req' = [limit |-> limit, offset |-> offset + limit,
                            kind |-> "advance"])

\* the end of a cache of 50 notes filled by one full page, in a window of 25
\* rows after a resize: Right is read and no request is issued
C33_Witness ==
    /\ scenario = "bulk130"
    /\ pc = "poll"
    /\ input_mode = "Normal"
    /\ Len(all_notes) = 50
    /\ total_fetched = 50
    /\ limit = 25
    /\ offset = 25
    /\ ENABLED (KeyRight /\ pc' = "poll" /\ req' = NoReq)

\* C34: the store is in first-arrival order: each response appends, behind the
\* notes already stored, first occurrences of its page in page order (an
\* order-preserving run of the candidates that are neither stored nor earlier
\* in the page), so pages are in the order their responses arrived.
C34_StoreIsFirstArrivalOrder ==
    [][(\/ InitialResponse(TRUE)
        \/ AdvanceResponse(TRUE)
        \/ BulkResponse(TRUE)) =>
          LET data == list_notes(req.limit, req.offset)
          IN  \E stop \in 1..(Len(data) + 1) :
                  all_notes' =
                      all_notes \o NotesAt(data, NewBefore(all_notes, data, stop))]_vars

\* the pages [n00A, n00A of ws2] and [n00C, n00D] arrived in that order: the
\* store holds n00A of ws1, n00C, n00D
C34_Witness ==
    /\ scenario = "overlap"
    /\ pc = "poll"
    /\ limit = 2
    /\ offset = 2
    /\ [k \in 1..Len(all_notes) |-> all_notes[k].note_id] = <<"n00A", "n00C", "n00D">>
    /\ all_notes[1].workspace_id = "ws1"

C36_BulkFetchRunsToCompletion ==
    /\ [](pc = "poll" => ~is_fetching_all)
    /\ [](pc = "bulk_wait" =>
              /\ is_fetching_all
              /\ ~ENABLED (\E rows \in Heights(scenario) : Resize(rows))
              /\ ~ENABLED (\E c \in {"q", "a"}, ctrl \in BOOLEAN : KeyChar(c, ctrl))
              /\ ~ENABLED KeyRight
              /\ ~ENABLED KeyLeft)
    /\ [][pc = "bulk_wait" =>
              \/ pc' = "exited" /\ result' = "Err"
              \/ /\ pc' \in {"bulk_wait", "poll"}
                 /\ UNCHANGED <<offset, limit, input_mode, search_query,
                                search_offset, total_fetched>>]_vars
    /\ (pc = "bulk_wait") ~> (pc /= "bulk_wait")

\* a bulk fetch of three requests has ended on the short page and the loop
\* polls again
C36_Witness ==
    /\ scenario = "bulk130"
    /\ pc = "poll"
    /\ ~is_fetching_all
    /\ Len(all_notes) = 130
    /\ error_msg = NoMsg


\* C37: in every state the normal offset is 0 or strictly less than the
\* length of the store, so the bounds start = offset and
\* end = min(offset + limit, len) of the Normal-mode slice satisfy
\* start <= end <= len; the offset need not be a multiple of limit.
C37_OffsetInsideStore ==
    LET start == offset
        end == Min(start + limit, Len(all_notes))
    IN  /\ offset = 0 \/ offset < Len(all_notes)
        /\ 0 <= start
        /\ start <= end
        /\ end <= Len(all_notes)
        /\ display_notes(all_notes, offset, search_offset, limit, <<>>) =
               [k \in 1..(end - start) |-> all_notes[start + k]]

\* after Right and a resize the window starts inside the store at an offset
\* that is not a multiple of the limit
C37_Witness ==
    /\ pc = "poll"
    /\ input_mode = "Normal"
    /\ offset > 0
    /\ offset % limit /= 0
    /\ offset < Len(all_notes)
    /\ offset + limit > Len(all_notes)

\* C38: in every state input mode Normal implies an empty query; the search
\* window moves only in Search mode, and a step that quits, starts a bulk
\* fetch or issues a page request is taken with an empty query.
C38_NormalModeHasEmptyQuery ==
    /\ [](input_mode = "Normal" => search_query = <<>>)
    /\ [][/\ search_offset' /= search_offset => input_mode = "Search"
          /\ (input_mode = "Search" /\ input_mode' = "Normal" /\ pc' = "poll") =>
                 search_query' = <<>>
          /\ (pc = "poll" /\ pc' \in {"adv_wait", "bulk_wait"}) =>
                 input_mode = "Normal" /\ search_query = <<>>
          /\ (pc = "poll" /\ pc' = "exited" /\ result' = "Ok") =>
                 search_query = <<>>
          /\ (pc = "poll" /\ offset' /= offset /\ pc' = "poll") =>
                 input_mode = "Normal" /\ search_query = <<>>]_vars

\* a query is typed and its results are paged; Esc from here leaves Search
\* mode with the query cleared
C38_Witness ==
    /\ pc = "poll"
    /\ input_mode = "Search"
    /\ search_query /= <<>>
    /\ search_offset > 0
    /\ ENABLED (KeyEsc /\ input_mode' = "Normal" /\ search_query' = <<>>)


\* a message that is set is removed only by the response of an advance that
\* moves the offset, and is replaced only by the response of a page or bulk
\* request
MessageKeptUntilCommittedAdvance ==
    /\ (error_msg /= NoMsg /\ error_msg' = NoMsg /\ pc' /= "exited") =>
           AdvanceResponse(TRUE) /\ offset' /= offset
    /\ (error_msg /= NoMsg /\ error_msg' /= error_msg /\ pc' /= "exited") =>
           pc \in {"adv_wait", "bulk_wait"}

\* C39 as stated: a message, once set, is cleared only by a later advance
\* whose fetch succeeds and commits an offset move, and while it is set every
\* render shows the message in place of the note list.
C39_MessageShownWhileSet ==
    [][/\ MessageKeptUntilCommittedAdvance
       /\ (error_msg' /= NoMsg /\ pc' /= "exited") =>
              frame'.panel = "error" /\ frame'.message = error_msg']_vars

\* C39, amended: a message, once set, is cleared only by a later advance
\* whose fetch succeeds and commits an offset move; while it is set every
\* render shows the message in place of the note list, except the render
\* made while a page request is in flight, which shows the loading text and
\* neither the message nor the note list.
C39_MessageShownUnlessLoading ==
    [][/\ MessageKeptUntilCommittedAdvance
       /\ (error_msg' /= NoMsg /\ pc' /= "exited") =>
              IF pc' = "adv_wait"
              THEN frame'.panel = "loading" /\ frame'.message /= error_msg'
              ELSE frame'.panel = "error" /\ frame'.message = error_msg']_vars

\* after a failed advance Right is pressed again: the page request is in
\* flight, the message is still set and the render shows the loading text
C39_Witness ==
    /\ pc = "adv_wait"
    /\ error_msg = ErrText
    /\ all_notes /= <<>>
    /\ frame.panel = "loading"

=============================================================================
